---- MODULE Spec2Model ----
(***************************************************************************)
(* The revision engine of rust/rope/src/engine.rs: an append-only log of   *)
(* revisions over a growing union string, edits rebased from a (possibly   *)
(* stale) base revision, and group undo recomputed from the whole log.     *)
(*                                                                         *)
(* Text is a sequence of tokens.  Every inserted character is a token of   *)
(* its own, so that a character of the union string names the edit that    *)
(* inserted it; the engine never inspects the characters it stores.        *)
(*                                                                         *)
(* Subset and Delta (subset.rs, delta.rs) are collaborators of the engine, *)
(* modules of their own, and are modelled from their documented            *)
(* contracts.  A Subset is the set of positions it                         *)
(* excludes from a string (the ranges an edit deleted or inserted, the     *)
(* positions of the union string a revision does not show); it is trivial  *)
(* when it excludes nothing.  Positions count from 0, as in the source.    *)
(***************************************************************************)
EXTENDS Integers, Sequences, FiniteSets, TLC

\* Bounds of the model.
MaxRevs == 4        \* longest revision log explored (seed included)
MaxSeedLen == 1     \* longest initial text
MaxPriority == 2    \* priorities are 1..MaxPriority
MaxGroup == 2       \* undo groups are 1..MaxGroup

VARIABLES
    rev_id_counter, \* Engine.rev_id_counter
    union_str,      \* Engine.union_str
    revs,           \* Engine.revs
    last,           \* the last call made on the engine, whether it panicked, undo's groups
    hist,           \* per revision: the call that appended it and the head it produced
    replica,        \* a second Engine, fed the same calls in another order
    phase           \* how far the two engines are in being fed a swapped pair of edits

vars == <<rev_id_counter, union_str, revs, last, hist, replica, phase>>

None == -1          \* Option::None of an index

Max(a, b) == IF a >= b THEN a ELSE b

-----------------------------------------------------------------------------
(* Subset: the set of excluded positions.                                  *)

SubsetIsTrivial(s) == s = {}

\* Positions selected by both: excluded by either.
SubsetIntersect(s, other) == s \cup other

\* The position, counted with the positions of xform, of the p-th position
\* that xform does not exclude.
RECURSIVE NthFrom(_, _, _)
NthFrom(xform, p, q) ==
    IF q \in xform THEN NthFrom(xform, p, q + 1)
    ELSE IF p = 0 THEN q
    ELSE NthFrom(xform, p - 1, q + 1)

Nth(xform, p) == NthFrom(xform, p, 0)

\* s counts positions of the string without other's positions; the result
\* counts them with other's positions, which it leaves selected.
SubsetTransformExpand(s, other) == { Nth(other, p) : p \in s }

\* The same change of coordinates, with other's positions excluded.
SubsetTransformIntersect(s, other) == SubsetTransformExpand(s, other) \cup other

\* The characters of str at the positions s does not exclude.
SubsetApply(s, str) ==
    LET F[i \in 0..Len(str)] ==
            IF i = 0 THEN << >>
            ELSE IF (i - 1) \in s THEN F[i - 1]
            ELSE Append(F[i - 1], str[i])
    IN  F[Len(str)]

\* Number of positions below n that s does not exclude.
CountKept(s, n) == Cardinality({ q \in 0..(n - 1) : q \notin s })

-----------------------------------------------------------------------------
(* Delta over a text of base_len characters: ins[g] is the text inserted   *)
(* at gap g (before character g, gap base_len being the end) and del the   *)
(* set of deleted positions.                                               *)

NoIns(n) == [g \in 0..n |-> << >>]

\* (insert-only delta, Subset of the deleted positions)
DeltaFactor(delta) ==
    << [base_len |-> delta.base_len, ins |-> delta.ins, del |-> {}], delta.del >>

\* The gap, in the coordinates with xform's positions (a string of l
\* characters), of gap g: behind xform's positions at that gap when after,
\* in front of them otherwise.
ExpandGap(g, xform, l, after) ==
    LET m == CountKept(xform, l)
    IN  IF after
        THEN IF g < m THEN Nth(xform, g) ELSE l
        ELSE IF g = 0 THEN 0
             ELSE IF g - 1 < m THEN Nth(xform, g - 1) + 1 ELSE l

DeltaTransformExpand(delta, xform, l, after) ==
    LET n == delta.base_len
        gap == [g \in 0..n |-> ExpandGap(g, xform, l, after)]
        At(h) ==
            LET C[k \in 0..(n + 1)] ==
                    IF k = 0 THEN << >>
                    ELSE C[k - 1] \o (IF gap[k - 1] = h THEN delta.ins[k - 1] ELSE << >>)
            IN  C[n + 1]
    IN  [base_len |-> l, ins |-> [h \in 0..l |-> At(h)], del |-> {}]

\* The positions, in the text the delta produces, of the characters it inserts.
DeltaInvertInsert(delta) ==
    LET n == delta.base_len
        Start[g \in 0..n] ==
            IF g = 0 THEN 0 ELSE Start[g - 1] + Len(delta.ins[g - 1]) + 1
    IN  UNION { Start[g]..(Start[g] + Len(delta.ins[g]) - 1) : g \in 0..n }

\* The text the delta makes of str: at each gap the inserted text, then the
\* character unless deleted.  An insertion never drops a character of str.
DeltaApply(delta, str) ==
    LET n == Max(Len(str), delta.base_len)
        F[k \in 0..(n + 1)] ==
            IF k = 0 THEN << >>
            ELSE F[k - 1]
                 \o (IF k - 1 <= delta.base_len THEN delta.ins[k - 1] ELSE << >>)
                 \o (IF k - 1 < Len(str) /\ (k - 1) \notin delta.del
                     THEN << str[k] >> ELSE << >>)
    IN  F[n + 1]

\* The minimal delta from the text from_dels selects of s to the text
\* to_dels selects of s.
DeltaSynthesize(s, from_dels, to_dels) ==
    LET n == CountKept(from_dels, Len(s))
        Gap(q) == CountKept(from_dels, q)
        New(g) ==
            LET C[k \in 0..Len(s)] ==
                    IF k = 0 THEN << >>
                    ELSE C[k - 1] \o (IF (k - 1) \in from_dels /\ (k - 1) \notin to_dels
                                         /\ Gap(k - 1) = g
                                      THEN << s[k] >> ELSE << >>)
            IN  C[Len(s)]
    IN  [base_len |-> n,
         ins |-> [g \in 0..n |-> New(g)],
         del |-> { Gap(q) : q \in { p \in 0..(Len(s) - 1) :
                                      p \notin from_dels /\ p \in to_dels } }]

-----------------------------------------------------------------------------
(* Revision and Contents.                                                  *)

Edit(priority, undo_group, inserts, deletes) ==
    [tag |-> "Edit", priority |-> priority, undo_group |-> undo_group,
     inserts |-> inserts, deletes |-> deletes]

Undo(groups) == [tag |-> "Undo", groups |-> groups]

Revision(rev_id, from_union, union_str_len, edit) ==
    [rev_id |-> rev_id, from_union |-> from_union,
     union_str_len |-> union_str_len, edit |-> edit]

Engine(counter, str, log) ==
    [rev_id_counter |-> counter, union_str |-> str, revs |-> log]

\* The engine held in the variables.
Self == Engine(rev_id_counter, union_str, revs)

-----------------------------------------------------------------------------
(* impl Engine.  Indices into revs count from 0, as in the source:         *)
(* self.revs[i] of the source is self.revs[i + 1] here.                    *)

\* The group set of the newest Undo revision, if there is one.
get_current_undo(self) ==
    LET undos == { i \in 1..Len(self.revs) : self.revs[i].edit.tag = "Undo" }
    IN  IF undos = {} THEN [some |-> FALSE, groups |-> {}]
        ELSE [some |-> TRUE,
              groups |-> self.revs[CHOOSE i \in undos : \A j \in undos : j <= i].edit.groups]

\* find_rev falling back to the seed revision for an id that is not in the log.
find_rev_or_seed(self, rev_id) ==
    LET found == { i \in 0..(Len(self.revs) - 1) : self.revs[i + 1].rev_id = rev_id }
    IN  IF found = {} THEN 0
        ELSE CHOOSE i \in found : \A j \in found : j <= i

\* The index of the newest revision with this id, or None.
find_rev(self, rev_id) ==
    LET found == { i \in 0..(Len(self.revs) - 1) : self.revs[i + 1].rev_id = rev_id }
    IN  IF found = {} THEN None
        ELSE CHOOSE i \in found : \A j \in found : j <= i

\* get_rev applying the revision's from_union to the union string as it is,
\* without the projection through the inserts of the later revisions.
get_rev_unprojected(self, rev_index) ==
    SubsetApply(self.revs[rev_index + 1].from_union, self.union_str)

get_rev(self, rev_index) ==
    LET n == Len(self.revs)
        from_union[j \in rev_index..(n - 1)] ==
            IF j = rev_index THEN self.revs[rev_index + 1].from_union
            ELSE LET rev == self.revs[j + 1]
                 IN  IF rev.edit.tag = "Edit" /\ ~SubsetIsTrivial(rev.edit.inserts)
                     THEN SubsetTransformIntersect(from_union[j - 1], rev.edit.inserts)
                     ELSE from_union[j - 1]
    IN  SubsetApply(from_union[n - 1], self.union_str)

get_head(self) == get_rev(self, Len(self.revs) - 1)

\* delta_head without the previous from_union carried through the newest inserts.
delta_head_unaligned(self) ==
    LET n == Len(self.revs)
    IN  DeltaSynthesize(self.union_str, self.revs[n - 1].from_union, self.revs[n].from_union)

\* Defined on a log of two revisions or more.
delta_head(self) ==
    LET n == Len(self.revs)
        rev == self.revs[n]
        prev == self.revs[n - 1].from_union
        prev_from_union ==
            IF rev.edit.tag = "Edit" /\ ~SubsetIsTrivial(rev.edit.inserts)
            THEN SubsetTransformIntersect(prev, rev.edit.inserts)
            ELSE prev
    IN  DeltaSynthesize(self.union_str, prev_from_union, rev.from_union)

\* The builds of the crate: usize arithmetic that overflows panics in a debug
\* build and wraps in a release build.
Builds == {"debug", "release"}

\* The number of values of usize.  It stands for 2^64, which is beyond the
\* integers of the model checker; every modulus above the longest log gives
\* the same outcomes.
UsizeModulus == 1073741824

\* self.revs.len() - 2 stopping at 0 instead of overflowing.
prev_index_saturating(self, build) ==
    [panicked |-> FALSE, value |-> Max(Len(self.revs) - 2, 0)]

\* self.revs.len() - 2 in usize.
prev_index(self, build) ==
    LET n == Len(self.revs)
    IN  IF n >= 2 THEN [panicked |-> FALSE, value |-> n - 2]
        ELSE IF build = "debug" THEN [panicked |-> TRUE]
        ELSE [panicked |-> FALSE, value |-> (n - 2) % UsizeModulus]

\* A call of delta_head(): it panics when the subtraction does, and when the
\* index it yields is out of the bounds of revs.
delta_head_call(self, build) ==
    LET ix == prev_index(self, build)
    IN  IF ix.panicked THEN [panicked |-> TRUE]
        ELSE IF ix.value >= Len(self.revs) THEN [panicked |-> TRUE]
        ELSE [panicked |-> FALSE, delta |-> delta_head(self)]

\* The Contents the loop of mk_new_rev matches for the later revision r: the
\* source matches rev.edit, the base revision's, on every iteration.
LoopContents(rev, r) == rev.edit

\* The insertion delta and the deleted positions of an edit against
\* revs[ix], in the coordinates of the union string:
\* <<union_ins_delta, new_deletes>> after the loop over the later revisions.
rebase(self, ix, new_priority, ins_delta, deletes) ==
    LET n == Len(self.revs)
        rev == self.revs[ix + 1]
        loop[j \in ix..(n - 1)] ==
            IF j = ix
            THEN << DeltaTransformExpand(ins_delta, rev.from_union, rev.union_str_len, TRUE),
                    SubsetTransformExpand(deletes, rev.from_union) >>
            ELSE LET r == self.revs[j + 1]
                     c == LoopContents(rev, r)
                     prev == loop[j - 1]
                 IN  IF c.tag = "Edit" /\ ~SubsetIsTrivial(c.inserts)
                     THEN LET after == new_priority >= c.priority
                          IN  << DeltaTransformExpand(prev[1], c.inserts,
                                                      r.union_str_len, after),
                                 SubsetTransformExpand(prev[2], c.inserts) >>
                     ELSE prev
    IN  loop[n - 1]

\* The insertions applied to the visible text instead of the union string.
mk_new_union_str_of_head(self, union_ins_delta) ==
    DeltaApply(union_ins_delta, get_head(self))

\* The union string with the rebased insertions.
mk_new_union_str(self, union_ins_delta) == DeltaApply(union_ins_delta, self.union_str)

\* The from_union of the new revision: the base revision's, less the new
\* insertions when the group is undone and less the new deletions otherwise.
mk_new_from_union(self, rev, undo_group, new_inserts, new_deletes) ==
    LET current == get_current_undo(self)
        undone == current.some /\ undo_group \in current.groups
        edit == IF undone THEN new_inserts ELSE new_deletes
    IN  IF ~SubsetIsTrivial(edit) THEN SubsetIntersect(rev.from_union, edit)
        ELSE rev.from_union

\* [panicked |-> TRUE] when base_rev is not found, else the new revision and
\* the new union string.
mk_new_rev(self, new_priority, undo_group, base_rev, delta) ==
    LET ix == find_rev(self, base_rev)
    IN  IF ix = None THEN [panicked |-> TRUE]
        ELSE
        LET rev == self.revs[ix + 1]
            factored == DeltaFactor(delta)
            rebased == rebase(self, ix, new_priority, factored[1], factored[2])
            union_ins_delta == rebased[1]
            new_deletes == rebased[2]
            new_inserts == DeltaInvertInsert(union_ins_delta)
            new_union_str == mk_new_union_str(self, union_ins_delta)
            new_from_union ==
                mk_new_from_union(self, rev, undo_group, new_inserts, new_deletes)
        IN  [panicked |-> FALSE,
             rev |-> Revision(self.rev_id_counter, new_from_union, Len(new_union_str),
                              Edit(new_priority, undo_group, new_inserts, new_deletes)),
             union_str |-> new_union_str]

\* edit_rev storing the new revision over the newest one instead of pushing it.
edit_rev_overwrite(self, priority, undo_group, base_rev, delta) ==
    LET new == mk_new_rev(self, priority, undo_group, base_rev, delta)
    IN  IF new.panicked THEN self
        ELSE Engine(self.rev_id_counter + 1, new.union_str,
                    [self.revs EXCEPT ![Len(self.revs)] = new.rev])

\* The engine after the call; a panic in mk_new_rev leaves it as it was.
edit_rev(self, priority, undo_group, base_rev, delta) ==
    LET new == mk_new_rev(self, priority, undo_group, base_rev, delta)
    IN  IF new.panicked THEN self
        ELSE Engine(self.rev_id_counter + 1, new.union_str, Append(self.revs, new.rev))

\* compute_undo resuming the replay at the newest Undo revision, from its
\* from_union, instead of replaying from the first revision.
compute_undo_resumed(self, groups) ==
    LET n == Len(self.revs)
        start == CHOOSE i \in 0..(n - 1) :
                    /\ self.revs[i + 1].edit.tag = "Undo"
                    /\ \A j \in (i + 1)..(n - 1) : self.revs[j + 1].edit.tag # "Undo"
        from_union[j \in start..(n - 1)] ==
            IF j = start THEN self.revs[start + 1].from_union
            ELSE LET rev == self.revs[j + 1]
                     prev == from_union[j - 1]
                 IN  IF rev.edit.undo_group \in groups
                     THEN IF ~SubsetIsTrivial(rev.edit.inserts)
                          THEN SubsetTransformIntersect(prev, rev.edit.inserts)
                          ELSE prev
                     ELSE LET expanded ==
                                  IF ~SubsetIsTrivial(rev.edit.inserts)
                                  THEN SubsetTransformExpand(prev, rev.edit.inserts)
                                  ELSE prev
                          IN  IF ~SubsetIsTrivial(rev.edit.deletes)
                              THEN SubsetIntersect(expanded, rev.edit.deletes)
                              ELSE expanded
    IN  Revision(self.rev_id_counter, from_union[n - 1], Len(self.union_str), Undo(groups))

compute_undo(self, groups) ==
    LET n == Len(self.revs)
        from_union[j \in 0..(n - 1)] ==
            IF j = 0 THEN self.revs[1].from_union
            ELSE LET rev == self.revs[j + 1]
                     prev == from_union[j - 1]
                 IN  IF rev.edit.tag # "Edit" THEN prev
                     ELSE IF rev.edit.undo_group \in groups
                     THEN IF ~SubsetIsTrivial(rev.edit.inserts)
                          THEN SubsetTransformIntersect(prev, rev.edit.inserts)
                          ELSE prev
                     ELSE LET expanded ==
                                  IF ~SubsetIsTrivial(rev.edit.inserts)
                                  THEN SubsetTransformExpand(prev, rev.edit.inserts)
                                  ELSE prev
                          IN  IF ~SubsetIsTrivial(rev.edit.deletes)
                              THEN SubsetIntersect(expanded, rev.edit.deletes)
                              ELSE expanded
    IN  Revision(self.rev_id_counter, from_union[n - 1], Len(self.union_str), Undo(groups))

\* undo that toggles the given groups in the set undone so far.
undo_toggle(self, groups) ==
    LET current == get_current_undo(self).groups
        toggled == (current \ groups) \cup (groups \ current)
    IN  Engine(self.rev_id_counter + 1, self.union_str,
               Append(self.revs,
                      [compute_undo(self, toggled) EXCEPT !.edit = Undo(groups)]))

\* undo that does not advance the id counter.
undo_same_id(self, groups) ==
    Engine(self.rev_id_counter, self.union_str,
           Append(self.revs, compute_undo(self, groups)))

\* undo numbering the new revision from the variable rev_id_counter, a counter
\* that the engines of the process would share, not from self's own.
undo_shared_ids(self, groups) ==
    Engine(self.rev_id_counter + 1, self.union_str,
           Append(self.revs,
                  [compute_undo(self, groups) EXCEPT !.rev_id = rev_id_counter]))

undo(self, groups) ==
    Engine(self.rev_id_counter + 1, self.union_str,
           Append(self.revs, compute_undo(self, groups)))

\* Engine::new: one seed revision that shows all of the initial text.
new(initial_contents) ==
    Engine(1, initial_contents,
           << Revision(0, {}, Len(initial_contents), Undo({})) >>)

-----------------------------------------------------------------------------
(* The calls a client makes.                                               *)

Priorities == 1..MaxPriority
Groups == 1..MaxGroup

\* Initial texts: tokens -1, -2, ...
SeedText(n) == [i \in 1..n |-> 0 - i]

\* The deltas a client submits over a text of n characters, inserting the
\* token tok: nothing, one insertion, one deletion, or one character replaced.
Deltas(n, tok) ==
    { [base_len |-> n, ins |-> NoIns(n), del |-> {}] }
    \cup { [base_len |-> n, ins |-> [NoIns(n) EXCEPT ![g] = << tok >>], del |-> {}] :
             g \in 0..n }
    \cup { [base_len |-> n, ins |-> NoIns(n), del |-> {p}] : p \in 0..(n - 1) }
    \cup { [base_len |-> n, ins |-> [NoIns(n) EXCEPT ![p] = << tok >>], del |-> {p}] :
             p \in 0..(n - 1) }

\* A call of edit_rev, and the absence of one.
Call(priority, undo_group, base_rev, delta) ==
    [priority |-> priority, undo_group |-> undo_group,
     base_rev |-> base_rev, delta |-> delta]

NoCall == Call(0, 0, None, [base_len |-> 0, ins |-> NoIns(0), del |-> {}])

RevIds(self) == { self.revs[i].rev_id : i \in 1..Len(self.revs) }

\* The text a client saw as the head when revision base_rev was appended:
\* the text its delta is written against.  Empty for an id it never saw.
BaseText(base_rev) ==
    LET seen == { i \in 1..Len(revs) : revs[i].rev_id = base_rev }
    IN  IF seen = {} THEN << >> ELSE hist[CHOOSE i \in seen : TRUE].head

Tokens(text) == { text[i] : i \in 1..Len(text) }

\* What hist records of a call that appended a revision and left this head.
HistEdit(base_rev, delta, head) ==
    [base_rev |-> base_rev, delta |-> delta,
     ins_tok |-> UNION { Tokens(delta.ins[g]) : g \in 0..delta.base_len },
     del_tok |-> { BaseText(base_rev)[p + 1] : p \in delta.del },
     head |-> head]

HistUndo(head) ==
    [base_rev |-> None, delta |-> [base_len |-> 0, ins |-> NoIns(0), del |-> {}],
     ins_tok |-> {}, del_tok |-> {}, head |-> head]

Init ==
    \E n \in 0..MaxSeedLen :
        /\ rev_id_counter = new(SeedText(n)).rev_id_counter
        /\ union_str = new(SeedText(n)).union_str
        /\ revs = new(SeedText(n)).revs
        /\ last = [op |-> "new", base_rev |-> None, panicked |-> FALSE]
        /\ hist = << HistUndo(get_head(new(SeedText(n)))) >>
        /\ replica = new(SeedText(n))
        /\ phase = [name |-> "run", a |-> NoCall, b |-> NoCall]

\* edit_rev(priority, undo_group, base_rev, delta) on the engine.
EditRevWith(priority, undo_group, base_rev, delta) ==
    \E after \in { edit_rev(Self, priority, undo_group, base_rev, delta) } :
        LET panicked == find_rev(Self, base_rev) = None
        IN  /\ rev_id_counter' = after.rev_id_counter
            /\ union_str' = after.union_str
            /\ revs' = after.revs
            /\ last' = [op |-> "edit_rev", base_rev |-> base_rev, panicked |-> panicked]
            /\ hist' = IF panicked THEN hist
                       ELSE Append(hist, HistEdit(base_rev, delta, get_head(after)))

\* undo(groups) on the engine.
UndoWith(groups) ==
    \E after \in { undo(Self, groups) } :
        /\ rev_id_counter' = after.rev_id_counter
        /\ union_str' = after.union_str
        /\ revs' = after.revs
        /\ last' = [op |-> "undo", base_rev |-> None, panicked |-> FALSE,
                    groups |-> groups]
        /\ hist' = Append(hist, HistUndo(get_head(after)))

\* Ids a client may pass as base_rev: every id issued so far, and one that
\* was never issued.
BaseRevs == 0..rev_id_counter

CallEditRev ==
    /\ Len(revs) < MaxRevs
    /\ \E priority \in Priorities, undo_group \in Groups, base_rev \in BaseRevs :
         \E delta \in Deltas(Len(BaseText(base_rev)), rev_id_counter) :
            EditRevWith(priority, undo_group, base_rev, delta)
    /\ UNCHANGED << replica, phase >>

CallUndo ==
    /\ Len(revs) < MaxRevs
    /\ \E groups \in SUBSET Groups : UndoWith(groups)
    /\ UNCHANGED << replica, phase >>

Next == CallEditRev \/ CallUndo

Spec == Init /\ [][Next]_vars

-----------------------------------------------------------------------------------------------------------------------------------------------------
(* Two engines fed the same calls, the last two edits in opposite orders.  *)

\* Room is kept in the log for the two swapped edits.
ConvEditRev ==
    /\ phase.name = "run"
    /\ Len(revs) + 2 < MaxRevs
    /\ \E priority \in Priorities, undo_group \in Groups, base_rev \in BaseRevs :
         \E delta \in Deltas(Len(BaseText(base_rev)), rev_id_counter) :
            /\ EditRevWith(priority, undo_group, base_rev, delta)
            /\ replica' = edit_rev(replica, priority, undo_group, base_rev, delta)
    /\ UNCHANGED phase

ConvUndo ==
    /\ phase.name = "run"
    /\ Len(revs) + 2 < MaxRevs
    /\ \E groups \in SUBSET Groups :
            /\ UndoWith(groups)
            /\ replica' = undo(replica, groups)
    /\ UNCHANGED phase

\* Two clients have each written an edit against a revision of the log, with
\* priorities that differ: the engine receives a, the replica b.
ConvFirst ==
    /\ phase.name = "run"
    /\ Len(revs) + 2 <= MaxRevs
    /\ \E pa, pb \in Priorities, ga, gb \in Groups, ba, bb \in RevIds(Self) :
         \E da \in Deltas(Len(BaseText(ba)), rev_id_counter),
            db \in Deltas(Len(BaseText(bb)), rev_id_counter + 1) :
            /\ pa # pb
            /\ EditRevWith(pa, ga, ba, da)
            /\ replica' = edit_rev(replica, pb, gb, bb, db)
            /\ phase' = [name |-> "first", a |-> Call(pa, ga, ba, da),
                         b |-> Call(pb, gb, bb, db)]

\* Then the engine receives b and the replica a.
ConvSecond ==
    /\ phase.name = "first"
    /\ EditRevWith(phase.b.priority, phase.b.undo_group, phase.b.base_rev, phase.b.delta)
    /\ replica' = edit_rev(replica, phase.a.priority, phase.a.undo_group,
                           phase.a.base_rev, phase.a.delta)
    /\ phase' = [phase EXCEPT !.name = "swapped"]

NextConv == ConvEditRev \/ ConvUndo \/ ConvFirst \/ ConvSecond

SpecConv == Init /\ [][NextConv]_vars

-----------------------------------------------------------------------------
(* Two engines fed the same calls in the same order, the replica one call  *)
(* behind the engine.                                                      *)

\* A call of undo.
UndoCall(groups) == [groups |-> groups]

DetEditRev ==
    /\ phase.name = "run"
    /\ Len(revs) < MaxRevs
    /\ \E priority \in Priorities, undo_group \in Groups, base_rev \in BaseRevs :
         \E delta \in Deltas(Len(BaseText(base_rev)), rev_id_counter) :
            /\ EditRevWith(priority, undo_group, base_rev, delta)
            /\ phase' = [name |-> "edit_rev",
                         a |-> Call(priority, undo_group, base_rev, delta),
                         b |-> NoCall]
    /\ UNCHANGED replica

DetUndo ==
    /\ phase.name = "run"
    /\ Len(revs) < MaxRevs
    /\ \E groups \in SUBSET Groups :
            /\ UndoWith(groups)
            /\ phase' = [name |-> "undo", a |-> UndoCall(groups), b |-> NoCall]
    /\ UNCHANGED replica

\* The replica receives the call the engine has received.
DetReplicaEditRev ==
    /\ phase.name = "edit_rev"
    /\ replica' = edit_rev(replica, phase.a.priority, phase.a.undo_group,
                           phase.a.base_rev, phase.a.delta)
    /\ phase' = [name |-> "run", a |-> NoCall, b |-> NoCall]
    /\ UNCHANGED << rev_id_counter, union_str, revs, last, hist >>

DetReplicaUndo ==
    /\ phase.name = "undo"
    /\ replica' = undo(replica, phase.a.groups)
    /\ phase' = [name |-> "run", a |-> NoCall, b |-> NoCall]
    /\ UNCHANGED << rev_id_counter, union_str, revs, last, hist >>

NextDet == DetEditRev \/ DetUndo \/ DetReplicaEditRev \/ DetReplicaUndo

SpecDet == Init /\ [][NextDet]_vars

-----------------------------------------------------------------------------
(* Claims.                                                                 *)

\* The engine as it was when its log had the first n revisions of revs (the
\* union string is not needed where this is used).
LogPrefix(n) == Engine(revs[n].rev_id + 1, << >>, SubSeq(revs, 1, n))

\* The state right after an edit_rev call that appended a revision.
AfterEdit == last.op = "edit_rev" /\ ~last.panicked

\* The state right after an undo call.
AfterUndo == last.op = "undo"

\* The edit whose revision is the newest was based on the head and its
\* undo group was not undone when it was submitted.
HeadEdit ==
    /\ AfterEdit
    /\ hist[Len(revs)].base_rev = revs[Len(revs) - 1].rev_id
    /\ revs[Len(revs)].edit.undo_group \notin get_current_undo(LogPrefix(Len(revs) - 1)).groups

\* C1: after edit_rev with base_rev the newest revision and an undo_group
\* that is not undone, get_head() is the submitted delta applied to
\* get_head() before the call.
C1_HeadEditAppliesDelta ==
    HeadEdit =>
        get_head(Self) = DeltaApply(hist[Len(revs)].delta, hist[Len(revs) - 1].head)

\* Position of a token in a text that holds it.
Pos(text, tok) == CHOOSE k \in 1..Len(text) : text[k] = tok

\* tok1 and tok2 both occur in text, tok1 first.
Before(text, tok1, tok2) ==
    /\ tok1 \in Tokens(text)
    /\ tok2 \in Tokens(text)
    /\ Pos(text, tok1) < Pos(text, tok2)

Inserts(i) == revs[i].edit.tag = "Edit" /\ hist[i].ins_tok # {}

InsGap(i) == CHOOSE g \in 0..hist[i].delta.base_len : hist[i].delta.ins[g] # << >>

InsTok(i) == CHOOSE t \in hist[i].ins_tok : TRUE

\* Revisions i and j are edits against the same base revision that insert
\* at the same gap of its text, j with the larger priority.
SameGap(i, j) ==
    /\ i # j
    /\ Inserts(i)
    /\ Inserts(j)
    /\ hist[i].base_rev = hist[j].base_rev
    /\ InsGap(i) = InsGap(j)
    /\ revs[i].edit.priority < revs[j].edit.priority

\* C3: of two edits against the same base that insert at the same gap, the
\* text of the one with the larger priority comes after the other's, in the
\* union string and in the head, whichever was submitted first.
C3_LargerPriorityAfter ==
    \A i, j \in 2..Len(revs) :
        SameGap(i, j) =>
            /\ Before(union_str, InsTok(i), InsTok(j))
            /\ ({InsTok(i), InsTok(j)} \subseteq Tokens(get_head(Self))
                  => Before(get_head(Self), InsTok(i), InsTok(j)))

\* The last two edits, swapped between the engine and the replica, have
\* different base revisions: every pair of edits that shares a base revision
\* is submitted in the same order to both.
SwappedApart ==
    /\ phase.name = "swapped"
    /\ phase.a.base_rev # phase.b.base_rev

\* C2: two call sequences that are permutations of each other and keep the
\* order of every pair of edits sharing a base revision end with the same
\* head text.
C2_Convergence == SwappedApart => get_head(Self) = get_head(replica)

\* The groups of the newest revision, an Undo.
NewestGroups == revs[Len(revs)].edit.groups

IsEdit(i) == revs[i].edit.tag = "Edit"

\* Tokens that undo(groups) is to hide: those inserted by the edits of the
\* groups, and those deleted by the other edits.
HiddenBy(groups) ==
    UNION { IF revs[i].edit.undo_group \in groups THEN hist[i].ins_tok ELSE hist[i].del_tok :
              i \in { k \in 1..Len(revs) : IsEdit(k) } }

\* C4: after undo(G) the head is the text as if the edits of the groups in G
\* had never happened: it hides the text they inserted and shows the inserts
\* and deletes of every other edit.
C4_UndoHidesGroups ==
    AfterUndo =>
        Tokens(get_head(Self)) = Tokens(union_str) \ HiddenBy(NewestGroups)

\* The last two revisions are Undo revisions with the same group set.
UndoTwice ==
    /\ AfterUndo
    /\ Len(revs) >= 3
    /\ revs[Len(revs) - 1].edit.tag = "Undo"
    /\ revs[Len(revs) - 1].edit.groups = NewestGroups

\* C5 as stated: undo(G) then undo(G) again restores the text the head
\* showed before the first of the two calls.
C5_UndoTwiceRestores == UndoTwice => get_head(Self) = hist[Len(revs) - 2].head

\* C5 amended: undo(G) then undo(G) again leaves the text the head showed
\* after the first of the two calls.
C5_UndoTwiceSame == UndoTwice => get_head(Self) = hist[Len(revs) - 1].head

\* undo(G) twice, G hiding text that was visible before.
C5_Witness == UndoTwice /\ get_head(Self) # hist[Len(revs) - 2].head

\* C6: with two or more revisions, delta_head() applied to the text of the
\* revision before the newest is the text of the head.
C6_DeltaConsistency ==
    Len(revs) >= 2 =>
        DeltaApply(delta_head(Self), get_rev(Self, Len(revs) - 2)) = get_head(Self)

\* The newest revision is an edit that inserted and deleted, and the head
\* differs from the text before it.
C6_Witness ==
    /\ Len(revs) >= 3
    /\ IsEdit(Len(revs))
    /\ ~SubsetIsTrivial(revs[Len(revs)].edit.inserts)
    /\ ~SubsetIsTrivial(revs[Len(revs)].edit.deletes)
    /\ get_rev(Self, Len(revs) - 2) # get_head(Self)

C8_IdsIncrease ==
    /\ \A i \in 1..(Len(revs) - 1) : revs[i].rev_id < revs[i + 1].rev_id
    /\ \A i \in 1..Len(revs) : revs[i].rev_id < rev_id_counter

\* A log with an Undo revision followed by an Edit revision.
C8_Witness ==
    \E i \in 2..(Len(revs) - 1) : revs[i].edit.tag = "Undo" /\ IsEdit(i + 1)

\* C9: a call that returns appends one revision and leaves every
\* revision of the log where and as it was; no call removes one.
C9_AppendOnly ==
    [][ /\ Len(revs') = (IF last'.panicked THEN Len(revs) ELSE Len(revs) + 1)
        /\ SubSeq(revs', 1, Len(revs)) = revs
        /\ revs'[1] = revs[1] ]_vars

\* A full log with an Edit revision followed by an Undo revision.
C9_Witness ==
    /\ Len(revs) = MaxRevs
    /\ \E i \in 2..(Len(revs) - 1) : IsEdit(i) /\ revs[i + 1].edit.tag = "Undo"

\* C10: edit_rev with a base_rev that is no id of the log panics and leaves
\* the log, the union string and the id counter as they were.
C10_UnknownBasePanics ==
    [][ (last'.op = "edit_rev" /\ last'.base_rev \notin RevIds(Self)) =>
            /\ last'.panicked
            /\ UNCHANGED << revs, union_str, rev_id_counter >> ]_vars

\* An edit_rev call has panicked on an engine that holds edits.
C10_Witness == last.panicked /\ Len(revs) >= 2 /\ last.base_rev \notin RevIds(Self)

\* C11: delta_head() on a log of fewer than two revisions panics and returns
\* no delta, in every build; on a log of two revisions or more it returns a
\* delta, one over the text of the revision before the newest.
C11_DeltaHeadNeedsTwo ==
    \A build \in Builds :
        LET out == delta_head_call(Self, build)
        IN  IF Len(revs) < 2 THEN out.panicked
            ELSE /\ ~out.panicked
                 /\ out.delta = delta_head(Self)
                 /\ out.delta.base_len = Len(get_rev(Self, Len(revs) - 2))

\* An engine that holds a seed text and only its seed revision, on which
\* delta_head() panics.
C11_Witness ==
    /\ Len(revs) = 1
    /\ Len(union_str) = MaxSeedLen
    /\ \A build \in Builds : delta_head_call(Self, build).panicked

\* The number of positions the from_union of revision i marks as visible.
Marked(i) == CountKept(revs[i].from_union, revs[i].union_str_len)

\* Revision i is an edit against a base that was not the head.
StaleEdit(i) == IsEdit(i) /\ hist[i].base_rev # revs[i - 1].rev_id

\* C12: for every revision of the log, from_union is a subset of the
\* positions of a string of union_str_len characters, and it marks as many
\* positions as the revision's text has characters: the text get_head()
\* returned when the revision was appended, and the text get_rev returns for
\* it now.
C12_FromUnionCountsVisible ==
    \A i \in 1..Len(revs) :
        /\ revs[i].from_union \subseteq 0..(revs[i].union_str_len - 1)
        /\ Marked(i) = Len(hist[i].head)
        /\ Marked(i) = Len(get_rev(Self, i - 1))

ExpandedThroughLater(self, ix, new_priority, ins_delta, deletes) ==
    LET n == Len(self.revs)
        rev == self.revs[ix + 1]
        loop[j \in ix..(n - 1)] ==
            IF j = ix
            THEN << DeltaTransformExpand(ins_delta, rev.from_union, rev.union_str_len, TRUE),
                    SubsetTransformExpand(deletes, rev.from_union) >>
            ELSE LET r == self.revs[j + 1]
                     prev == loop[j - 1]
                 IN  IF r.edit.tag = "Edit" /\ ~SubsetIsTrivial(r.edit.inserts)
                     THEN << DeltaTransformExpand(prev[1], r.edit.inserts, r.union_str_len,
                                                  new_priority >= r.edit.priority),
                             SubsetTransformExpand(prev[2], r.edit.inserts) >>
                     ELSE prev
    IN  loop[n - 1]

\* C14: in edit_rev the insertion delta and the deletion subset are expanded
\* through the own inserts of every Edit revision after the base that has
\* non-trivial inserts, once each and in log order, and through nothing else:
\* not through Undo revisions, Edits with trivial inserts, or the base's own
\* inserts.
C14_LoopUsesLaterInserts ==
    AfterEdit =>
        LET n == Len(revs)
            before == LogPrefix(n - 1)
            ix == find_rev(before, hist[n].base_rev)
            factored == DeltaFactor(hist[n].delta)
            priority == revs[n].edit.priority
        IN  rebase(before, ix, priority, factored[1], factored[2])
              = ExpandedThroughLater(before, ix, priority, factored[1], factored[2])

\* The newest Undo revision among the first n revisions of the log (the seed
\* revision when undo was never called).
NewestUndo(n) ==
    CHOOSE i \in 1..n : /\ revs[i].edit.tag = "Undo"
                        /\ \A j \in (i + 1)..n : revs[j].edit.tag # "Undo"

\* The undo_group of the newest revision, an edit, was undone when the edit
\* was submitted.
SubmittedUndone ==
    revs[Len(revs)].edit.undo_group \in revs[NewestUndo(Len(revs) - 1)].edit.groups

\* The base revision of the edit whose revision is the newest.
BaseOfNewest ==
    revs[CHOOSE i \in 1..(Len(revs) - 1) : revs[i].rev_id = hist[Len(revs)].base_rev]

\* s intersected with edit, the intersection skipped when edit is trivial.
IntersectUnlessTrivial(s, edit) == IF edit = {} THEN s ELSE SubsetIntersect(s, edit)

\* The new from_union is the base's intersected with the new inserts for an
\* edit in an undone group, with the new deletes otherwise.
C15_FromUnionRule ==
    AfterEdit =>
        revs[Len(revs)].from_union =
            IntersectUnlessTrivial(BaseOfNewest.from_union,
                                   IF SubmittedUndone THEN revs[Len(revs)].edit.inserts
                                   ELSE revs[Len(revs)].edit.deletes)

\* The text inserted by an edit in an undone group is not visible in the head.
C15_UndoneInsertHidden ==
    (AfterEdit /\ SubmittedUndone) =>
        hist[Len(revs)].ins_tok \cap Tokens(get_head(Self)) = {}

\* The text deleted by an edit in a group that is not undone is not visible
\* in the head.
C15_DeletionTakesEffect ==
    (AfterEdit /\ ~SubmittedUndone) =>
        hist[Len(revs)].del_tok \cap Tokens(get_head(Self)) = {}

\* C15: an edit's group counts as undone exactly when it is in the group set
\* of the newest Undo revision; for such an edit from_union is the base's
\* intersected with the new inserts and the inserted text is not visible in
\* the head; otherwise it is the base's intersected with the new deletes and
\* the deleted text is not visible in the head.
C15_UndoneRule ==
    /\ C15_FromUnionRule
    /\ C15_UndoneInsertHidden
    /\ C15_DeletionTakesEffect

UndoneNow == revs[NewestUndo(Len(revs))].edit.groups

\* C17: in every reachable state, undo called with the set of the groups
\* undone now leaves get_head() as it is.
C17_UndoCurrentKeepsHead ==
    get_head(undo(Self, UndoneNow)) = get_head(Self)

\* The log without its Undo revisions, the first revision kept.
EditsOnly(log) ==
    << log[1] >> \o SelectSeq(Tail(log), LAMBDA r : r.edit.tag = "Edit")

\* C18: undo(groups) leaves the union string and every revision of the log
\* as they were, advances the id counter by one and appends one revision: an
\* Undo revision with exactly the given groups, whose from_union is the
\* replay of the Edit revisions of the log alone.
C18_UndoFrame ==
    [][ last'.op = "undo" =>
            /\ union_str' = union_str
            /\ rev_id_counter' = rev_id_counter + 1
            /\ Len(revs') = Len(revs) + 1
            /\ SubSeq(revs', 1, Len(revs)) = revs
            /\ revs'[Len(revs')].edit = Undo(last'.groups)
            /\ revs'[Len(revs')].rev_id = rev_id_counter
            /\ revs'[Len(revs')].union_str_len = Len(union_str)
            /\ revs'[Len(revs')].from_union =
                 compute_undo(Engine(rev_id_counter, union_str, EditsOnly(revs)),
                              last'.groups).from_union ]_vars

\* undo has been called on a log that held an earlier Undo revision with
\* other groups and another from_union, and edits.
C18_Witness ==
    /\ AfterUndo
    /\ \E i \in 2..(Len(revs) - 1) :
          /\ revs[i].edit.tag = "Undo"
          /\ revs[i].edit.groups # last.groups
          /\ revs[i].from_union # revs[Len(revs)].from_union
    /\ \E i \in 2..(Len(revs) - 1) : IsEdit(i)

\* The union string as it was right after revision i was appended: the
\* characters of the union string of now that the later revisions did not
\* insert.
UnionAt(i) ==
    LET keep[j \in i..Len(revs)] ==
            IF j = i THEN {}
            ELSE IF IsEdit(j) THEN keep[j - 1] \cup hist[j].ins_tok
            ELSE keep[j - 1]
    IN  SelectSeq(union_str, LAMBDA c : c \notin keep[Len(revs)])

\* union_str_len of the newest revision is the length of the union string,
\* and along the log it grows by the number of positions an Edit's inserts
\* mark and not at all at an Undo revision.
C19_UnionStrLen ==
    /\ revs[Len(revs)].union_str_len = Len(union_str)
    /\ \A i \in 1..Len(revs) : revs[i].union_str_len = Len(UnionAt(i))
    /\ \A i \in 2..Len(revs) :
          revs[i].union_str_len - revs[i - 1].union_str_len =
              (IF IsEdit(i) THEN Cardinality(revs[i].edit.inserts) ELSE 0)

\* The inserts of an Edit revision are the positions, in the union string of
\* that revision, of the characters the edit inserted.
C19_InsertsInUnion ==
    \A i \in 2..Len(revs) :
        IsEdit(i) =>
            /\ revs[i].edit.inserts \subseteq 0..(revs[i].union_str_len - 1)
            /\ { UnionAt(i)[p + 1] : p \in revs[i].edit.inserts } = hist[i].ins_tok

\* The deletes of an Edit revision are the positions, in the union string of
\* that revision, of the characters the edit deleted.
C19_DeletesInUnion ==
    \A i \in 2..Len(revs) :
        IsEdit(i) =>
            /\ revs[i].edit.deletes \subseteq 0..(revs[i].union_str_len - 1)
            /\ { UnionAt(i)[p + 1] : p \in revs[i].edit.deletes } = hist[i].del_tok

\* C19: for every revision, union_str_len is the length of the union string
\* right after the revision was appended; for an Edit revision the inserts
\* mark as many positions as the union string grew by, and inserts and
\* deletes are positions of the union string of that length, those of the
\* characters the edit inserted and deleted, also for a stale base.
C19_UnionCoordinates ==
    /\ C19_UnionStrLen
    /\ C19_InsertsInUnion
    /\ C19_DeletesInUnion

====
